---- MODULE Spec2Model ----
(***************************************************************************)
(* The virtual-environment registry of agentic-core                        *)
(* (src/src/agentic_core/commands/venv_manager.py): the registry file, its *)
(* temporary file and backup directory, the store functions load_registry, *)
(* save_registry and backup_registry, and the operations built on them.    *)
(***************************************************************************)
EXTENDS Integers, Sequences, FiniteSets, TLC

\* ------------------------------------------------------------------ bounds

\* The clock (datetime.now()) takes the values 0..MaxTime.
MaxTime == 2

\* backup_registry keeps the last 10 backups.
KeepBackups == 10

\* A run of the operations holds at most MaxSteps operations and outside
\* events, a run of the store at most MaxStoreSteps.
MaxSteps == 3
MaxStoreSteps == 6

\* The clock of a run of saves takes the values 0..MaxClock, and the run
\* ends with at most MaxBackupSteps saves and ticks of its own.
MaxClock == 12

\* A run of the feedback system holds at most MaxFeedbackSteps calls.
MaxFeedbackSteps == 3

\* A run of the operations on a disk that does not fail holds at most
\* MaxQuietSteps operations and outside events.
MaxQuietSteps == 3
MaxBackupSteps == 4

Times == 0..MaxTime

VARIABLES
    regFile,    \* the file at REGISTRY_PATH
    tmpFile,    \* the file at REGISTRY_PATH + ".tmp"
    backups,    \* BACKUP_DIR: backup timestamp -> file
    now,        \* datetime.now()
    fs,         \* the directories the registry's paths name
    op,         \* the operation that ran last, with the entry it named
    ret,        \* what it returned ("raised": an exception left it)
    ld,         \* what its load_registry call did
    sv,         \* what its own save_registry call did
    steps,      \* how many operations and outside events there have been
    procs,      \* the processes that run save_registry step by step
    seen,       \* what a reader of the registry file read last
    finished,   \* the processes whose save has returned, in that order
    feedback    \* the feedback directory and the last call of update_feedback

vars == <<regFile, tmpFile, backups, now, fs, op, ret, ld, sv, steps,
          procs, seen, finished, feedback>>

\* ------------------------------------------------------- files and JSON

\* A JSON document: an object (a Python dict), some other JSON value (a list,
\* say), or text that is no JSON at all.
ObjDoc(r) == [type |-> "object", val |-> r]
ArrayDoc == [type |-> "array"]
GarbageDoc == [type |-> "garbage"]

\* dict[k] = v: adds the key when it is missing.
Put(d, k, v) == [x \in DOMAIN d \cup {k} |-> IF x = k THEN v ELSE d[x]]

\* The text of a document is a sequence of chunks, one for the top-level
\* fields and one per environment record; a chunk knows the document and the
\* position it was written for.
SerLen(doc) ==
    IF doc.type = "object" /\ "virtual_environments" \in DOMAIN doc.val
    THEN 1 + Len(doc.val.virtual_environments)
    ELSE 1

\* json.dump(registry, f, indent=2): the complete text.
JsonDump(doc) == [i \in 1..SerLen(doc) |-> [of |-> doc, i |-> i]]

\* json.load(f): a text parses when it is the complete text of a JSON value;
\* an empty file, a truncated text and a mixture of two texts raise
\* JSONDecodeError.
JsonLoad(data) ==
    IF data = <<>> THEN [ok |-> FALSE]
    ELSE LET doc == data[1].of
         IN  IF doc.type # "garbage" /\ data = JsonDump(doc)
             THEN [ok |-> TRUE, doc |-> doc]
             ELSE [ok |-> FALSE]

NoFile == [exists |-> FALSE, data |-> <<>>]
FileOf(data) == [exists |-> TRUE, data |-> data]
GarbageText == JsonDump(GarbageDoc)

\* A file parses as a JSON object.
IsRegistryFile(f) ==
    f.exists /\ JsonLoad(f.data).ok /\ JsonLoad(f.data).doc.type = "object"

\* The registry a file holds (for a file with IsRegistryFile).
RegistryOf(f) == JsonLoad(f.data).doc.val

Disk(reg, tmp, bk) == [reg |-> reg, tmp |-> tmp, bk |-> bk]

\* The registry load_registry builds when it finds no file (note = FALSE) or
\* cannot restore a corrupted one (note = TRUE).
NewRegistry(t, note) ==
    [virtual_environments |-> <<>>,
     last_updated |-> t,
     registry_version |-> "1.0.0",
     metadata |->
        IF note
        THEN [description |-> "Registry of active Python virtual environments managed by uv",
              managed_by |-> "agentic framework",
              note |-> "This registry was recreated due to corruption"]
        ELSE [description |-> "Registry of active Python virtual environments managed by uv",
              managed_by |-> "agentic framework"]]

\* ---------------------------------------------------------------- store

\* The backup files, by name (the timestamp in the name sorts them).
BackupNames(bk) == {t \in DOMAIN bk : bk[t].exists}

MaxOf(S) == CHOOSE x \in S : \A y \in S : y <= x

\* A rotation that slices from the wrong end: backups[10:] are removed.
RotateBackupsOldest(bk) ==
    LET names == BackupNames(bk)
    IN  IF Cardinality(names) > KeepBackups
        THEN [t \in DOMAIN bk |->
                IF bk[t].exists /\ Cardinality({u \in names : u < t}) < KeepBackups
                THEN bk[t] ELSE NoFile]
        ELSE bk

\* backups[:-10] are removed: a backup stays when fewer than 10 are newer.
RotateBackups(bk) ==
    LET names == BackupNames(bk)
    IN  IF Cardinality(names) > KeepBackups
        THEN [t \in DOMAIN bk |->
                IF bk[t].exists /\ Cardinality({u \in names : u > t}) < KeepBackups
                THEN bk[t] ELSE NoFile]
        ELSE bk

\* backup_registry(): copies the registry file to venv_registry_<now>.json
\* (over a backup of the same second) and rotates. copyFails: shutil.copy2
\* raises, which is caught.
BackupRegistry(d, t, copyFails) ==
    IF ~d.reg.exists THEN [disk |-> d, ok |-> FALSE]
    ELSE IF copyFails THEN [disk |-> d, ok |-> FALSE]
    ELSE [disk |-> [d EXCEPT !.bk = RotateBackups([d.bk EXCEPT ![t] = d.reg])],
          ok |-> TRUE]

\* How the write of a save can fail: open() of the temporary file raises
\* ("open"), json.dump raises before anything is written ("write_empty") or
\* before the last chunk ("write_part"), os.replace raises ("replace").
SaveFailures == {"none", "open", "write_empty", "write_part", "replace"}

\* What the temporary file holds when the write fails at `fail`.
TmpAfterFailure(tmp, text, fail) ==
    CASE fail = "open" -> tmp
      [] fail = "write_empty" -> FileOf(<<>>)
      [] fail = "write_part" -> FileOf(SubSeq(text, 1, Len(text) - 1))
      [] OTHER -> FileOf(text)

\* A save that renames the temporary file before its last chunk is flushed.
SaveRegistryUnflushed(d, registry, t, fail, copyFails) ==
    LET d1 == IF d.reg.exists THEN BackupRegistry(d, t, copyFails).disk ELSE d
        r1 == Put(registry, "last_updated", t)
        text == JsonDump(ObjDoc(r1))
    IN  IF fail = "none"
        THEN [disk |-> [d1 EXCEPT !.reg = FileOf(SubSeq(text, 1, Len(text) - 1)),
                                  !.tmp = NoFile],
              ok |-> TRUE, registry |-> r1]
        ELSE [disk |-> [d1 EXCEPT !.tmp = TmpAfterFailure(d1.tmp, text, fail)],
              ok |-> FALSE, registry |-> r1]

\* A save that writes the temporary file and never renames it.
SaveRegistryNoReplace(d, registry, t, fail, copyFails) ==
    LET d1 == IF d.reg.exists THEN BackupRegistry(d, t, copyFails).disk ELSE d
        r1 == Put(registry, "last_updated", t)
        text == JsonDump(ObjDoc(r1))
    IN  [disk |-> [d1 EXCEPT !.tmp = TmpAfterFailure(d1.tmp, text, fail)],
         ok |-> fail = "none", registry |-> r1]

\* save_registry(registry) for a dict: backup, stamp, write the temporary
\* file, rename it over the registry file. The dict is stamped in place, so
\* the caller's registry carries the new last_updated.
SaveRegistry(d, registry, t, fail, copyFails) ==
    LET d1 == IF d.reg.exists THEN BackupRegistry(d, t, copyFails).disk ELSE d
        r1 == Put(registry, "last_updated", t)
        text == JsonDump(ObjDoc(r1))
    IN  IF fail = "none"
        THEN [disk |-> [d1 EXCEPT !.reg = FileOf(text), !.tmp = NoFile],
              ok |-> TRUE, registry |-> r1]
        ELSE [disk |-> [d1 EXCEPT !.tmp = TmpAfterFailure(d1.tmp, text, fail)],
              ok |-> FALSE, registry |-> r1]

\* A recreation that leaves the note out.
RecreateWithoutNote(d, t, fail, copyFails) ==
    LET s == SaveRegistry(d, NewRegistry(t, FALSE), t, fail, copyFails)
    IN  [disk |-> s.disk, raised |-> FALSE, doc |-> ObjDoc(s.registry),
         via |-> "recreated", saved |-> s.ok]

\* The end of load_registry's JSONDecodeError branch: a new registry with the
\* corruption note is saved and returned.
RecreateRegistry(d, t, fail, copyFails) ==
    LET s == SaveRegistry(d, NewRegistry(t, TRUE), t, fail, copyFails)
    IN  [disk |-> s.disk, raised |-> FALSE, doc |-> ObjDoc(s.registry),
         via |-> "recreated", saved |-> s.ok]

\* load_registry's JSONDecodeError branch: the newest backup is read and, when
\* it parses, saved as the registry file and returned. A backup that does not
\* parse, or parses to something save_registry cannot stamp (its TypeError
\* comes after its backup step), leads to RecreateRegistry.
RestoreRegistry(d, t, fail, copyFails) ==
    LET names == BackupNames(d.bk)
    IN  IF names = {} THEN RecreateRegistry(d, t, fail, copyFails)
        ELSE LET q == JsonLoad(d.bk[MaxOf(names)].data)
             IN  IF ~q.ok THEN RecreateRegistry(d, t, fail, copyFails)
                 ELSE IF q.doc.type # "object"
                 THEN RecreateRegistry(BackupRegistry(d, t, copyFails).disk,
                                       t, fail, copyFails)
                 ELSE LET s == SaveRegistry(d, q.doc.val, t, fail, copyFails)
                      IN  [disk |-> s.disk, raised |-> FALSE,
                           doc |-> ObjDoc(s.registry),
                           via |-> "restored", saved |-> s.ok]

\* load_registry(). denied: open() raises an OSError other than
\* FileNotFoundError (the file cannot be read), which no handler catches.
\* The result: the disk afterwards, whether an exception left the function,
\* the value returned, the branch taken and whether the branch's save
\* succeeded.
LoadRegistry(d, t, denied, fail, copyFails) ==
    IF ~d.reg.exists
    THEN LET s == SaveRegistry(d, NewRegistry(t, FALSE), t, fail, copyFails)
         IN  [disk |-> s.disk, raised |-> FALSE, doc |-> ObjDoc(s.registry),
              via |-> "created", saved |-> s.ok]
    ELSE IF denied
    THEN [disk |-> d, raised |-> TRUE, doc |-> GarbageDoc,
          via |-> "raised", saved |-> FALSE]
    ELSE LET p == JsonLoad(d.reg.data)
         IN  IF p.ok
             THEN [disk |-> d, raised |-> FALSE, doc |-> p.doc,
                   via |-> "parsed", saved |-> FALSE]
             ELSE RestoreRegistry(d, t, fail, copyFails)

\* ------------------------------------------------------------ filesystem

\* The canonical paths of the model and the forms a caller may give them in.
PathX == "/home/u/Agentic/projects/x/.venv"
PathY == "/opt/y/venv"
Paths == {PathX, PathY}
RawPaths == {PathX, "~/Agentic/projects/x/.venv", PathY, "/opt/y/venv/"}

\* os.path.abspath(os.path.expanduser(p)): "~" becomes the home directory
\* and a trailing slash is dropped; links are not resolved.
Abspath(p) ==
    CASE p = "~/Agentic/projects/x/.venv" -> PathX
      [] p = "/opt/y/venv/" -> PathY
      [] OTHER -> p

\* A directory the registry may name: whether it exists, whether bin/python
\* and bin/pip are files, whether the interpreter runs, and whether
\* "python -m pip list" yields packages.
EnvMissing == [dir |-> FALSE, python |-> FALSE, pip |-> FALSE, runs |-> FALSE, pkgs |-> FALSE]
EnvEmpty == [dir |-> TRUE, python |-> FALSE, pip |-> FALSE, runs |-> FALSE, pkgs |-> FALSE]
EnvNoPip == [dir |-> TRUE, python |-> TRUE, pip |-> FALSE, runs |-> TRUE, pkgs |-> TRUE]
EnvBroken == [dir |-> TRUE, python |-> TRUE, pip |-> TRUE, runs |-> FALSE, pkgs |-> FALSE]
EnvBare == [dir |-> TRUE, python |-> TRUE, pip |-> TRUE, runs |-> TRUE, pkgs |-> FALSE]
EnvValid == [dir |-> TRUE, python |-> TRUE, pip |-> TRUE, runs |-> TRUE, pkgs |-> TRUE]
EnvStates == {EnvMissing, EnvEmpty, EnvNoPip, EnvBroken, EnvBare, EnvValid}

\* verify_venv(venv_path)
VerifyVenv(e) == e.python /\ e.pip /\ e.runs

\* get_python_version(venv_path)
GetPythonVersion(e) == IF e.python /\ e.runs THEN "3.11" ELSE "unknown"

\* get_installed_packages(venv_path)
GetInstalledPackages(e) ==
    IF e.python /\ e.pkgs THEN <<[name |-> "pip", version |-> "24.0"]>> ELSE <<>>

\* The directories repair_registry's scan of ~/Agentic/projects and ~/Climate
\* comes across (a ".venv" below a scan location), in os.walk's order, and
\* the project each belongs to (the name of the directory above).
ScanOrder == <<PathX>>
ScanProject(p) == "x"

\* ----------------------------------------------------------- operations

\* None, and the empty string, are false in "if python_version:".
None == ""
Truthy(s) == s # None

Names == {"x", "y"}

DefaultDescription(project_name) ==
    IF project_name = "x" THEN "Virtual environment for x"
    ELSE "Virtual environment for y"

AutoDescription(project_name) ==
    IF project_name = "x" THEN "Virtual environment for x (auto-discovered)"
    ELSE "Virtual environment for y (auto-discovered)"

\* What can go wrong with the files during one operation: the registry file
\* cannot be read, the save that load_registry makes fails, the operation's
\* own save fails, the copy to the backup directory fails.
IO(denied, load, save, copy) ==
    [denied |-> denied, load |-> load, save |-> save, copy |-> copy]
IOok == IO(FALSE, "none", "none", FALSE)
IOFaults ==
    {IOok, IO(TRUE, "none", "none", FALSE), IO(FALSE, "none", "none", TRUE)}
    \cup {IO(FALSE, f, "none", FALSE) : f \in SaveFailures}
    \cup {IO(FALSE, "none", f, FALSE) : f \in SaveFailures}

Load(d, t, io) == LoadRegistry(d, t, io.denied, io.load, io.copy)
Save(d, registry, t, io) == SaveRegistry(d, registry, t, io.save, io.copy)

\* What an operation leaves behind: the disk, the directories, the value
\* returned, what its load did and how its save ended.
LdOf(l) == [raised |-> l.raised, doc |-> l.doc, via |-> l.via, saved |-> l.saved]
NoLoad == [raised |-> FALSE, doc |-> GarbageDoc, via |-> "none", saved |-> FALSE]
Res(d, fsys, r, l, s) == [disk |-> d, fs |-> fsys, ret |-> r, ld |-> l, sv |-> s]
SvOf(s) == IF s.ok THEN "ok" ELSE "failed"

\* registry["virtual_environments"] raises for a value that is no dict
\* (TypeError) and for a dict without the key (KeyError).
HasVenvs(doc) == doc.type = "object" /\ "virtual_environments" \in DOMAIN doc.val

MinOf(S) == CHOOSE x \in S : \A y \in S : x <= y

\* An update that leaves the entry's last_updated as it was.
UpdateEntryStale(venv, project_name, python_version, description, t) ==
    LET v1 == [venv EXCEPT !.project_name = project_name]
        v2 == IF Truthy(python_version)
              THEN [v1 EXCEPT !.python_version = python_version] ELSE v1
    IN  IF Truthy(description) THEN [v2 EXCEPT !.description = description] ELSE v2

\* An update that writes the entry anew, created_at included.
UpdateEntryAnew(venv, project_name, python_version, description, t) ==
    LET v1 == [venv EXCEPT !.project_name = project_name]
        v2 == IF Truthy(python_version)
              THEN [v1 EXCEPT !.python_version = python_version] ELSE v1
        v3 == IF Truthy(description)
              THEN [v2 EXCEPT !.description = description] ELSE v2
    IN  [v3 EXCEPT !.last_updated = t, !.created_at = t]

\* The update of an entry that is already registered (add_venv and
\* add_environment --force write the same lines).
UpdateEntry(venv, project_name, python_version, description, t) ==
    LET v1 == [venv EXCEPT !.project_name = project_name]
        v2 == IF Truthy(python_version)
              THEN [v1 EXCEPT !.python_version = python_version] ELSE v1
        v3 == IF Truthy(description)
              THEN [v2 EXCEPT !.description = description] ELSE v2
    IN  [v3 EXCEPT !.last_updated = t]

\* venv_info of a new entry, with "packages" when the probe found some.
NewEntry(venv_path, e, project_name, python_version, description, t) ==
    LET info == [path |-> venv_path,
                 project_name |-> project_name,
                 python_version |->
                    IF Truthy(python_version) THEN python_version
                    ELSE GetPythonVersion(e),
                 description |->
                    IF Truthy(description) THEN description
                    ELSE DefaultDescription(project_name),
                 created_at |-> t, last_used |-> t, last_updated |-> t]
        packages == GetInstalledPackages(e)
    IN  IF packages # <<>> THEN Put(info, "packages", packages) ELSE info

\* Register without the lookup of the path: every add appends.
RegisterAppends(l, fsys, t, venv_path, project_name, python_version, description, update, io) ==
    IF ~HasVenvs(l.doc) THEN Res(l.disk, fsys, "raised", LdOf(l), "none")
    ELSE LET registry == l.doc.val
             s == Save(l.disk,
                       [registry EXCEPT !.virtual_environments =
                           Append(@, NewEntry(venv_path, fsys[venv_path],
                                              project_name, python_version,
                                              description, t))],
                       t, io)
         IN  Res(s.disk, fsys, "True", LdOf(l), SvOf(s))

\* The part add_venv and add_environment --force share, from "Check if venv
\* is already registered" on. update: the entry found is updated (the
\* operator answered y, or --force).
Register(l, fsys, t, venv_path, project_name, python_version, description, update, io) ==
    IF ~HasVenvs(l.doc) THEN Res(l.disk, fsys, "raised", LdOf(l), "none")
    ELSE
    LET registry == l.doc.val
        venvs == registry.virtual_environments
        hits == {i \in 1..Len(venvs) : venvs[i].path = venv_path}
    IN  IF hits # {}
        THEN IF update
             THEN LET i == MinOf(hits)
                      s == Save(l.disk,
                                [registry EXCEPT !.virtual_environments[i] =
                                    UpdateEntry(venvs[i], project_name,
                                                python_version, description, t)],
                                t, io)
                  IN  Res(s.disk, fsys, "True", LdOf(l), SvOf(s))
             ELSE Res(l.disk, fsys, "False", LdOf(l), "none")
        ELSE LET s == Save(l.disk,
                           [registry EXCEPT !.virtual_environments =
                               Append(venvs, NewEntry(venv_path, fsys[venv_path],
                                                      project_name, python_version,
                                                      description, t))],
                           t, io)
             IN  Res(s.disk, fsys, "True", LdOf(l), SvOf(s))

\* An add that registers a directory whatever the verification says.
AddVenvUnverified(d, fsys, t, raw, project_name, python_version, description, verify, anyway, update, io) ==
    LET l == Load(d, t, io)
        venv_path == Abspath(raw)
    IN  IF l.raised THEN Res(l.disk, fsys, "raised", LdOf(l), "none")
        ELSE IF ~fsys[venv_path].dir
        THEN Res(l.disk, fsys, "False", LdOf(l), "none")
        ELSE Register(l, fsys, t, venv_path, project_name, python_version,
                      description, update, io)

\* add_venv(venv_path, project_name, python_version, description, verify).
\* anyway, update: the operator's answers to "Add to registry anyway?" and
\* "Update the existing entry?".
AddVenv(d, fsys, t, raw, project_name, python_version, description, verify, anyway, update, io) ==
    LET l == Load(d, t, io)
        venv_path == Abspath(raw)
    IN  IF l.raised THEN Res(l.disk, fsys, "raised", LdOf(l), "none")
        ELSE IF ~fsys[venv_path].dir
        THEN Res(l.disk, fsys, "False", LdOf(l), "none")
        ELSE IF verify /\ ~VerifyVenv(fsys[venv_path]) /\ ~anyway
        THEN Res(l.disk, fsys, "False", LdOf(l), "none")
        ELSE Register(l, fsys, t, venv_path, project_name, python_version,
                      description, update, io)

\* add_environment(args) with --force: no verification and no prompt.
AddForce(d, fsys, t, raw, project_name, python_version, description, io) ==
    LET l == Load(d, t, io)
        venv_path == Abspath(raw)
    IN  IF l.raised THEN Res(l.disk, fsys, "raised", LdOf(l), "none")
        ELSE IF ~fsys[venv_path].dir
        THEN Res(l.disk, fsys, "False", LdOf(l), "none")
        ELSE Register(l, fsys, t, venv_path, project_name, python_version,
                      description, TRUE, io)

\* A remove that keeps no record once one matches.
RemoveVenvAll(d, fsys, t, raw, project_name, delete, io) ==
    IF ~Truthy(raw) /\ ~Truthy(project_name)
    THEN Res(d, fsys, "False", NoLoad, "none")
    ELSE
    LET l == Load(d, t, io)
        venv_path == IF Truthy(raw) THEN Abspath(raw) ELSE None
        Match(v) == \/ Truthy(venv_path) /\ v.path = venv_path
                    \/ Truthy(project_name) /\ v.project_name = project_name
    IN  IF l.raised \/ ~HasVenvs(l.doc)
        THEN Res(l.disk, fsys, "raised", LdOf(l), "none")
        ELSE
        LET registry == l.doc.val
            venvs == registry.virtual_environments
            hits == {i \in 1..Len(venvs) : Match(venvs[i])}
        IN  IF hits = {} THEN Res(l.disk, fsys, "False", LdOf(l), "none")
            ELSE LET s == Save(l.disk, [registry EXCEPT !.virtual_environments = <<>>],
                               t, io)
                 IN  Res(s.disk, fsys, "True", LdOf(l), SvOf(s))

\* remove_venv(venv_path, project_name). delete: the paths for which the
\* operator answers y to "Delete the virtual environment directory?".
RemoveVenv(d, fsys, t, raw, project_name, delete, io) ==
    IF ~Truthy(raw) /\ ~Truthy(project_name)
    THEN Res(d, fsys, "False", NoLoad, "none")
    ELSE
    LET l == Load(d, t, io)
        venv_path == IF Truthy(raw) THEN Abspath(raw) ELSE None
        Match(v) == \/ Truthy(venv_path) /\ v.path = venv_path
                    \/ Truthy(project_name) /\ v.project_name = project_name
    IN  IF l.raised \/ ~HasVenvs(l.doc)
        THEN Res(l.disk, fsys, "raised", LdOf(l), "none")
        ELSE
        LET registry == l.doc.val
            venvs == registry.virtual_environments
            hits == {i \in 1..Len(venvs) : Match(venvs[i])}
            gone == {venvs[i].path : i \in hits} \cap delete
            fsys1 == [q \in DOMAIN fsys |->
                        IF q \in gone /\ fsys[q].dir THEN EnvMissing ELSE fsys[q]]
        IN  IF hits = {} THEN Res(l.disk, fsys, "False", LdOf(l), "none")
            ELSE LET s == Save(l.disk,
                               [registry EXCEPT !.virtual_environments =
                                   SelectSeq(venvs, LAMBDA v : ~Match(v))],
                               t, io)
                 IN  Res(s.disk, fsys1, "True", LdOf(l), SvOf(s))

\* A list_venvs that writes the registry it has read back to the file.
ListVenvsSaving(d, fsys, t, io) ==
    LET l == Load(d, t, io)
    IN  IF l.raised \/ ~HasVenvs(l.doc)
        THEN Res(l.disk, fsys, "raised", LdOf(l), "none")
        ELSE LET s == Save(l.disk, l.doc.val, t, io)
             IN  Res(s.disk, fsys, "None", LdOf(l), SvOf(s))

\* list_venvs(): prints; the registry is read only.
ListVenvs(d, fsys, t, io) ==
    LET l == Load(d, t, io)
    IN  IF l.raised \/ ~HasVenvs(l.doc)
        THEN Res(l.disk, fsys, "raised", LdOf(l), "none")
        ELSE Res(l.disk, fsys, "None", LdOf(l), "none")

\* update_last_used(venv_path)
UpdateLastUsed(d, fsys, t, raw, io) ==
    LET l == Load(d, t, io)
        venv_path == Abspath(raw)
    IN  IF l.raised \/ ~HasVenvs(l.doc)
        THEN Res(l.disk, fsys, "raised", LdOf(l), "none")
        ELSE
        LET registry == l.doc.val
            venvs == registry.virtual_environments
            hits == {i \in 1..Len(venvs) : venvs[i].path = venv_path}
        IN  IF hits = {} THEN Res(l.disk, fsys, "False", LdOf(l), "none")
            ELSE LET s == Save(l.disk,
                               [registry EXCEPT
                                   !.virtual_environments[MinOf(hits)].last_used = t],
                               t, io)
                 IN  Res(s.disk, fsys, "True", LdOf(l), SvOf(s))

\* update_packages(venv_path, project_name): every matching entry gets the
\* probed package list; the first one whose directory is missing or whose
\* probe yields nothing ends the call before the save.
UpdatePackages(d, fsys, t, raw, project_name, io) ==
    IF ~Truthy(raw) /\ ~Truthy(project_name)
    THEN Res(d, fsys, "False", NoLoad, "none")
    ELSE
    LET l == Load(d, t, io)
        venv_path == IF Truthy(raw) THEN Abspath(raw) ELSE None
        Match(v) == \/ Truthy(venv_path) /\ v.path = venv_path
                    \/ Truthy(project_name) /\ v.project_name = project_name
    IN  IF l.raised \/ ~HasVenvs(l.doc)
        THEN Res(l.disk, fsys, "raised", LdOf(l), "none")
        ELSE
        LET registry == l.doc.val
            venvs == registry.virtual_environments
            hits == {i \in 1..Len(venvs) : Match(venvs[i])}
            Probed(v) == GetInstalledPackages(fsys[v.path])
            stops == {i \in hits : ~fsys[venvs[i].path].dir \/ Probed(venvs[i]) = <<>>}
            updated == [i \in 1..Len(venvs) |->
                          IF i \in hits
                          THEN [Put(venvs[i], "packages", Probed(venvs[i]))
                                   EXCEPT !.last_updated = t]
                          ELSE venvs[i]]
        IN  IF stops # {} \/ hits = {}
            THEN Res(l.disk, fsys, "False", LdOf(l), "none")
            ELSE LET s == Save(l.disk,
                               [registry EXCEPT !.virtual_environments = updated],
                               t, io)
                 IN  Res(s.disk, fsys, "True", LdOf(l), SvOf(s))

\* check_venv(venv_path, project_name): the first matching entry decides.
CheckVenv(d, fsys, t, raw, project_name, io) ==
    IF ~Truthy(raw) /\ ~Truthy(project_name)
    THEN Res(d, fsys, "False", NoLoad, "none")
    ELSE
    LET l == Load(d, t, io)
        venv_path == IF Truthy(raw) THEN Abspath(raw) ELSE None
        Match(v) == \/ Truthy(venv_path) /\ v.path = venv_path
                    \/ Truthy(project_name) /\ v.project_name = project_name
    IN  IF l.raised \/ ~HasVenvs(l.doc)
        THEN Res(l.disk, fsys, "raised", LdOf(l), "none")
        ELSE
        LET venvs == l.doc.val.virtual_environments
            hits == {i \in 1..Len(venvs) : Match(venvs[i])}
        IN  IF hits = {} THEN Res(l.disk, fsys, "False", LdOf(l), "none")
            ELSE LET e == fsys[venvs[MinOf(hits)].path]
                 IN  IF e.dir /\ VerifyVenv(e)
                     THEN Res(l.disk, fsys, "True", LdOf(l), "none")
                     ELSE Res(l.disk, fsys, "False", LdOf(l), "none")

\* A cleanup that saves the list it loaded.
CleanupUnassigned(d, fsys, t, io) ==
    LET l == Load(d, t, io)
    IN  IF l.raised \/ ~HasVenvs(l.doc)
        THEN Res(l.disk, fsys, "raised", LdOf(l), "none")
        ELSE
        LET registry == l.doc.val
            venvs == registry.virtual_environments
            updated_venvs == SelectSeq(venvs, LAMBDA v : fsys[v.path].dir)
            s == Save(l.disk, registry, t, io)
        IN  Res(s.disk, fsys,
                IF Len(venvs) - Len(updated_venvs) > 0 THEN "True" ELSE "False",
                LdOf(l), SvOf(s))

\* A cleanup that keeps only the environments that pass verify_venv.
CleanupUnverified(d, fsys, t, io) ==
    LET l == Load(d, t, io)
    IN  IF l.raised \/ ~HasVenvs(l.doc)
        THEN Res(l.disk, fsys, "raised", LdOf(l), "none")
        ELSE
        LET registry == l.doc.val
            venvs == registry.virtual_environments
            updated_venvs == SelectSeq(venvs, LAMBDA v : VerifyVenv(fsys[v.path]))
            s == Save(l.disk, [registry EXCEPT !.virtual_environments = updated_venvs],
                      t, io)
        IN  Res(s.disk, fsys,
                IF Len(venvs) - Len(updated_venvs) > 0 THEN "True" ELSE "False",
                LdOf(l), SvOf(s))

\* cleanup_nonexistent(): saves whether or not an entry was dropped.
CleanupNonexistent(d, fsys, t, io) ==
    LET l == Load(d, t, io)
    IN  IF l.raised \/ ~HasVenvs(l.doc)
        THEN Res(l.disk, fsys, "raised", LdOf(l), "none")
        ELSE
        LET registry == l.doc.val
            venvs == registry.virtual_environments
            updated_venvs == SelectSeq(venvs, LAMBDA v : fsys[v.path].dir)
            s == Save(l.disk, [registry EXCEPT !.virtual_environments = updated_venvs],
                      t, io)
        IN  Res(s.disk, fsys,
                IF Len(venvs) - Len(updated_venvs) > 0 THEN "True" ELSE "False",
                LdOf(l), SvOf(s))

\* A loop that adds every environment found, whatever the operator answers.
RECURSIVE RepairAddsUnasked(_, _, _, _, _)
RepairAddsUnasked(r, found, t, accept, io) ==
    IF found = <<>> \/ r.ret = "raised" THEN r
    ELSE LET p == Head(found)
             a == AddVenv(r.disk, r.fs, t, p, ScanProject(p),
                          GetPythonVersion(r.fs[p]),
                          AutoDescription(ScanProject(p)),
                          FALSE, FALSE, FALSE, io)
         IN  RepairAddsUnasked(Res(a.disk, a.fs,
                                   IF a.ret = "raised" THEN "raised" ELSE "True",
                                   r.ld, a.sv),
                               Tail(found), t, accept, io)

\* The loop over found_venvs in repair_registry: each one the operator accepts
\* goes through add_venv(..., verify=False), whose own prompt is not reached
\* for a path that was not registered. r: the result so far.
RECURSIVE RepairAdds(_, _, _, _, _)
RepairAdds(r, found, t, accept, io) ==
    IF found = <<>> \/ r.ret = "raised" THEN r
    ELSE LET p == Head(found)
             a == AddVenv(r.disk, r.fs, t, p, ScanProject(p),
                          GetPythonVersion(r.fs[p]),
                          AutoDescription(ScanProject(p)),
                          FALSE, FALSE, FALSE, io)
         IN  IF p \in accept
             THEN RepairAdds(Res(a.disk, a.fs,
                                 IF a.ret = "raised" THEN "raised" ELSE "True",
                                 r.ld, a.sv),
                             Tail(found), t, accept, io)
             ELSE RepairAdds(r, Tail(found), t, accept, io)

\* A scan that does not skip the paths the registry holds.
FoundVenvsAgain(venvs, fsys) ==
    SelectSeq(ScanOrder, LAMBDA p : fsys[p].dir /\ VerifyVenv(fsys[p]))

\* found_venvs of repair_registry: the scanned directories that are not in
\* the registry and pass verify_venv.
FoundVenvs(venvs, fsys) ==
    LET existing_paths == {venvs[i].path : i \in 1..Len(venvs)}
    IN  SelectSeq(ScanOrder,
                  LAMBDA p : fsys[p].dir /\ p \notin existing_paths
                             /\ VerifyVenv(fsys[p]))

\* What a run of repair_registry discovers on this disk.
RepairFound(d, fsys, t, io) ==
    LET l == Load(d, t, io)
    IN  IF l.raised \/ ~HasVenvs(l.doc) THEN <<>>
        ELSE FoundVenvs(l.doc.val.virtual_environments, fsys)

\* repair_registry(). accept: the paths the operator answers y for.
RepairRegistry(d, fsys, t, accept, io) ==
    LET l == Load(d, t, io)
    IN  IF l.raised \/ ~HasVenvs(l.doc)
        THEN Res(l.disk, fsys, "raised", LdOf(l), "none")
        ELSE
        RepairAdds(Res(l.disk, fsys, "True", LdOf(l), "none"),
                   FoundVenvs(l.doc.val.virtual_environments, fsys), t, accept, io)

\* -------------------------------------------------------------- actions

TheDisk == Disk(regFile, tmpFile, backups)

\* A call: the operation, the entry it names and, for an add, the optional
\* arguments, whether it verifies and what the operator answered.
NoArgs == [python_version |-> None, description |-> None,
           verify |-> FALSE, anyway |-> FALSE, update |-> FALSE]
\* after: the call that ran right before this one and what it returned.
\* accept, found: for repair, the paths the operator answers y for and the
\* environments the run discovered ("Found N new virtual environments").
NoAfter == [name |-> "outside", ret |-> "None"]
NoCall == [name |-> "outside", path |-> None, project_name |-> None,
           args |-> NoArgs, after |-> NoAfter, accept |-> {}, found |-> <<>>]
Call(name, path, project_name) ==
    [NoCall EXCEPT !.name = name, !.path = path, !.project_name = project_name]
CallAdd(name, path, project_name, a, verify, anyway, update) ==
    [Call(name, path, project_name) EXCEPT
        !.args = [python_version |-> a.python_version, description |-> a.description,
                  verify |-> verify, anyway |-> anyway, update |-> update]]
CallRepair(accept, found) ==
    [Call("repair", None, None) EXCEPT !.accept = accept, !.found = found]

\* The exit status of "ag venv <verb>": handle_subcommand returns what the
\* verb's function returned, or 1 after an exception, and main's result goes
\* to sys.exit, for which the bool True is the integer 1 and False is 0.
SysExit(r) ==
    CASE r = "True" -> 1
      [] r = "False" -> 0
      [] OTHER -> 1

\* One operation ran: what it left behind becomes the state.
Done(call, r) ==
    /\ regFile' = r.disk.reg
    /\ tmpFile' = r.disk.tmp
    /\ backups' = r.disk.bk
    /\ fs' = r.fs
    /\ op' = [call EXCEPT !.after = [name |-> op.name, ret |-> ret]]
    /\ ret' = r.ret
    /\ ld' = r.ld
    /\ sv' = r.sv
    /\ steps' = steps + 1
    /\ UNCHANGED <<feedback, now, procs, seen, finished>>

\* Something outside the program changed the disk, the directories or the
\* clock: no operation's result is current any more.
Outside ==
    /\ op' = NoCall
    /\ ret' = "None"
    /\ ld' = NoLoad
    /\ sv' = "none"
    /\ steps' = steps + 1
    /\ UNCHANGED <<feedback, procs, seen, finished>>

\* The optional arguments of add: none given, or both.
AddArgs == {[python_version |-> None, description |-> None],
            [python_version |-> "3.9", description |-> "given"]}

\* What a specification lets its operations be called with: the paths, the
\* project names, the optional arguments, the I/O faults, the states a
\* directory can be put in, and the length of a run.
Scope(raws, names, args, ios, envs, max) ==
    [raws |-> raws, names |-> names, args |-> args, ios |-> ios,
     envs |-> envs, max |-> max]

\* The registry file names this path (whatever load_registry would do).
Registered(p) ==
    /\ IsRegistryFile(regFile)
    /\ LET r == RegistryOf(regFile)
       IN  /\ "virtual_environments" \in DOMAIN r
           /\ \E i \in 1..Len(r.virtual_environments) :
                 r.virtual_environments[i].path = p

\* add_venv is asked "Add to registry anyway?" only for a directory that
\* fails the verification, and "Update the existing entry?" only for a path
\* that is registered; an answer nobody asks for is not an input.
Add(S) ==
    /\ steps < S.max
    /\ \E raw \in S.raws, project_name \in S.names, a \in S.args,
          verify \in BOOLEAN, io \in S.ios :
       \E anyway \in IF verify /\ fs[Abspath(raw)].dir /\ ~VerifyVenv(fs[Abspath(raw)])
                     THEN BOOLEAN ELSE {FALSE} :
       \E update \in IF /\ Registered(Abspath(raw))
                        /\ fs[Abspath(raw)].dir
                        /\ (~verify \/ VerifyVenv(fs[Abspath(raw)]) \/ anyway)
                     THEN BOOLEAN ELSE {FALSE} :
           Done(CallAdd("add", Abspath(raw), project_name, a, verify, anyway, update),
                AddVenv(TheDisk, fs, now, raw, project_name,
                        a.python_version, a.description, verify, anyway, update, io))

AddForced(S) ==
    /\ steps < S.max
    /\ \E raw \in S.raws, project_name \in S.names, a \in S.args, io \in S.ios :
        Done(CallAdd("add_force", Abspath(raw), project_name, a, FALSE, FALSE, TRUE),
             AddForce(TheDisk, fs, now, raw, project_name,
                      a.python_version, a.description, io))

\* remove by path or by name. The operator is asked about the directory of an
\* entry only when it exists.
Remove(S) ==
    /\ steps < S.max
    /\ \E raw \in S.raws \cup {None}, project_name \in S.names \cup {None},
          io \in S.ios :
       \E delete \in SUBSET {p \in Paths : fs[p].dir /\ Registered(p)} :
           /\ Truthy(raw) # Truthy(project_name)
           /\ Done(Call("remove", IF Truthy(raw) THEN Abspath(raw) ELSE None,
                        project_name),
                   RemoveVenv(TheDisk, fs, now, raw, project_name, delete, io))

List(S) ==
    /\ steps < S.max
    /\ \E io \in S.ios :
        Done(Call("list", None, None), ListVenvs(TheDisk, fs, now, io))

TouchLastUsed(S) ==
    /\ steps < S.max
    /\ \E raw \in S.raws, io \in S.ios :
        Done(Call("update_last_used", Abspath(raw), None),
             UpdateLastUsed(TheDisk, fs, now, raw, io))

RefreshPackages(S) ==
    /\ steps < S.max
    /\ \E raw \in S.raws \cup {None}, project_name \in S.names \cup {None},
          io \in S.ios :
        /\ Truthy(raw) # Truthy(project_name)
        /\ Done(Call("update_packages",
                     IF Truthy(raw) THEN Abspath(raw) ELSE None, project_name),
                UpdatePackages(TheDisk, fs, now, raw, project_name, io))

Check(S) ==
    /\ steps < S.max
    /\ \E raw \in S.raws \cup {None}, project_name \in S.names \cup {None},
          io \in S.ios :
        /\ Truthy(raw) # Truthy(project_name)
        /\ Done(Call("check", IF Truthy(raw) THEN Abspath(raw) ELSE None,
                     project_name),
                CheckVenv(TheDisk, fs, now, raw, project_name, io))

Cleanup(S) ==
    /\ steps < S.max
    /\ \E io \in S.ios :
        Done(Call("cleanup", None, None), CleanupNonexistent(TheDisk, fs, now, io))

Repair(S) ==
    /\ steps < S.max
    /\ \E accept \in SUBSET {ScanOrder[i] : i \in 1..Len(ScanOrder)}, io \in S.ios :
        Done(CallRepair(accept, RepairFound(TheDisk, fs, now, io)),
             RepairRegistry(TheDisk, fs, now, accept, io))

\* The clock advances.
Tick(S) ==
    /\ steps < S.max
    /\ now < MaxTime
    /\ now' = now + 1
    /\ UNCHANGED <<regFile, tmpFile, backups, fs>>
    /\ Outside

\* A directory is created, damaged, repaired or deleted outside the program.
FsChange(S) ==
    /\ steps < S.max
    /\ \E p \in Paths, e \in S.envs :
        /\ fs[p] # e
        /\ fs' = [fs EXCEPT ![p] = e]
        /\ UNCHANGED <<regFile, tmpFile, backups, now>>
        /\ Outside

\* The top-level keys of a registry.
TopKeys == {"virtual_environments", "last_updated", "registry_version", "metadata"}

\* dict without the key k.
Drop(d, k) == [x \in DOMAIN d \ {k} |-> d[x]]

\* What the registry file can be turned into outside the program: text that
\* is no JSON, an empty file, JSON that is no object, the registry with one
\* top-level key missing, or no file.
Damaged(f) ==
    {FileOf(GarbageText), FileOf(<<>>), FileOf(JsonDump(ArrayDoc)), NoFile}
    \cup (IF IsRegistryFile(f)
          THEN {FileOf(JsonDump(ObjDoc(Drop(RegistryOf(f), k)))) :
                   k \in TopKeys \cap DOMAIN RegistryOf(f)}
          ELSE {})

\* The registry file is damaged or deleted outside the program.
Corrupt(S) ==
    /\ steps < S.max
    /\ regFile.exists
    /\ \E f \in Damaged(regFile) :
        /\ regFile' = f
        /\ UNCHANGED <<tmpFile, backups, fs, now>>
        /\ Outside

\* ----------------------------------------------------- feedback system

\* FeedbackSystem (feedback_system.py) keeps one file <type>/<id>.json for
\* each item. Of the five types two are modelled, in the order in which
\* get_feedback looks through their directories; of an item's fields the
\* ones update_feedback treats differently and one ordinary field (status).
FeedbackTypes == <<"issue", "other">>
FeedbackIds == {"a", "b"}
FeedbackDirs == {FeedbackTypes[i] : i \in 1..Len(FeedbackTypes)}
NoItem == [id |-> "", type |-> "", status |-> "", created_at |-> 0, updated_at |-> 0]
NoFeedback ==
    [files |-> [d \in FeedbackDirs, i \in FeedbackIds |-> NoItem],
     id |-> "", updates |-> <<>>]

\* The updates a caller passes: a dict over some of the keys.
FeedbackUpdates ==
    {[k \in {"status"} |-> "acknowledged"],
     [k \in {"id", "created_at", "status"} |->
        CASE k = "id" -> "z" [] k = "created_at" -> 9 [] OTHER -> "resolved"],
     [k \in {"type"} |-> "other"],
     [k \in {"type"} |-> "issue"],
     [k \in {"type", "status"} |-> IF k = "type" THEN "other" ELSE "closed"]}

\* get_feedback(feedback_id): the file of the first type directory that has
\* one, or None.
GetFeedback(files, id) ==
    LET has == {i \in 1..Len(FeedbackTypes) : files[FeedbackTypes[i], id] # NoItem}
    IN  IF has = {} THEN NoItem ELSE files[FeedbackTypes[MinOf(has)], id]

\* submit_feedback(feedback_type, ...): a new item under a fresh id, in its
\* type's directory.
SubmitFeedback(files, id, type, t) ==
    [files EXCEPT ![type, id] =
        [id |-> id, type |-> type, status |-> "new", created_at |-> t, updated_at |-> t]]

\* update_feedback(feedback_id, updates): the item get_feedback returns,
\* with every key but id and created_at applied and updated_at stamped, is
\* written to <its type>/<id>.json. openFails: open() raises.
UpdateFeedback(files, id, updates, t, openFails) ==
    LET data == GetFeedback(files, id)
        applied == [k \in DOMAIN data |->
                      IF k \in DOMAIN updates /\ k \notin {"id", "created_at"}
                      THEN updates[k] ELSE data[k]]
        new == [applied EXCEPT !.updated_at = t]
    IN  IF data = NoItem \/ openFails \/ new.type \notin FeedbackDirs
        THEN [files |-> files, ret |-> "False"]
        ELSE [files |-> [files EXCEPT ![new.type, id] = new], ret |-> "True"]

Submit ==
    /\ steps < MaxFeedbackSteps
    /\ \E id \in FeedbackIds, type \in FeedbackDirs :
        /\ GetFeedback(feedback.files, id) = NoItem
        /\ feedback' = [files |-> SubmitFeedback(feedback.files, id, type, now),
                        id |-> id, updates |-> <<>>]
        /\ op' = Call("submit_feedback", None, None)
        /\ ret' = id
    /\ steps' = steps + 1
    /\ UNCHANGED <<regFile, tmpFile, backups, now, fs, ld, sv, procs, seen, finished>>

Update ==
    /\ steps < MaxFeedbackSteps
    /\ \E id \in FeedbackIds, updates \in FeedbackUpdates, openFails \in BOOLEAN :
        LET r == UpdateFeedback(feedback.files, id, updates, now, openFails)
        IN  /\ feedback' = [files |-> r.files, id |-> id, updates |-> updates]
            /\ op' = Call("update_feedback", None, None)
            /\ ret' = r.ret
    /\ steps' = steps + 1
    /\ UNCHANGED <<regFile, tmpFile, backups, now, fs, ld, sv, procs, seen, finished>>

FeedbackTick ==
    /\ steps < MaxFeedbackSteps
    /\ now < MaxTime
    /\ now' = now + 1
    /\ steps' = steps + 1
    /\ UNCHANGED <<regFile, tmpFile, backups, fs, op, ret, ld, sv, procs, seen,
                   finished, feedback>>

\* ------------------------------------------------- save, step by step

\* save_registry as the steps a process takes, so that other processes and
\* readers act between them. A process holds the registry it saves, the file
\* it found at REGISTRY_PATH, the place of the file its open descriptor
\* writes to ("tmp": still at the temporary path, "reg": renamed to
\* REGISTRY_PATH by some process, "gone": replaced), the chunks written so
\* far, what save_registry returned and where it failed.
Pids == {1, 2}

Idle == [pc |-> "idle", registry |-> NewRegistry(0, FALSE), old |-> NoFile,
         fd |-> "none", off |-> 0, ok |-> "none", failed |-> "none"]

Saving(registry, old) ==
    [Idle EXCEPT !.pc = "backup", !.registry = registry, !.old = old]

\* A hole: what a write beyond the end of a file leaves before it.
Hole == [of |-> GarbageDoc, i |-> 0]

\* f.write of one chunk at position pos of a file.
WriteAt(data, pos, chunk) ==
    IF pos <= Len(data) THEN [data EXCEPT ![pos] = chunk]
    ELSE data \o [k \in 1..(pos - Len(data) - 1) |-> Hole] \o <<chunk>>

\* The change a process makes to the registry it loaded: process 1 runs
\* add --force for PathX (not registered), process 2 remove for PathY.
Change(p, venvs) ==
    IF p = 1
    THEN Append(venvs, NewEntry(PathX, fs[PathX], "x", None, None, now))
    ELSE SelectSeq(venvs, LAMBDA v : v.path # PathY)

\* load_registry and the change, for a registry file that parses.
SLoad(p) ==
    /\ procs[p].pc = "load"
    /\ IsRegistryFile(regFile)
    /\ HasVenvs(ObjDoc(RegistryOf(regFile)))
    /\ LET registry == RegistryOf(regFile)
       IN  procs' = [procs EXCEPT ![p] =
                Saving([registry EXCEPT !.virtual_environments =
                           Change(p, registry.virtual_environments)],
                       regFile)]
    /\ UNCHANGED <<feedback, regFile, tmpFile, backups, now, fs, op, ret, ld, sv, steps,
                   seen, finished>>

\* "if os.path.exists(REGISTRY_PATH): backup_registry()" and the stamp.
SBackup(p) ==
    /\ procs[p].pc = "backup"
    /\ backups' = IF regFile.exists
                  THEN BackupRegistry(TheDisk, now, FALSE).disk.bk ELSE backups
    /\ procs' = [procs EXCEPT ![p].pc = "open",
                              ![p].registry = Put(@, "last_updated", now)]
    /\ UNCHANGED <<feedback, regFile, tmpFile, now, fs, op, ret, ld, sv, steps,
                   seen, finished>>

\* A save that opens the registry file itself for writing.
SOpenInPlace(p) ==
    /\ procs[p].pc = "open"
    /\ regFile' = FileOf(<<>>)
    /\ procs' = [procs EXCEPT ![p].pc = "write", ![p].fd = "reg", ![p].off = 0]
    /\ UNCHANGED <<feedback, tmpFile, backups, now, fs, op, ret, ld, sv, steps,
                   seen, finished>>

\* open(temp_path, 'w'): creates the temporary file, or empties the one that
\* is there (which other descriptors may be writing to).
SOpen(p) ==
    /\ procs[p].pc = "open"
    /\ tmpFile' = FileOf(<<>>)
    /\ procs' = [procs EXCEPT ![p].pc = "write", ![p].fd = "tmp", ![p].off = 0]
    /\ UNCHANGED <<feedback, regFile, backups, now, fs, op, ret, ld, sv, steps,
                   seen, finished>>

\* json.dump writes the next chunk through the descriptor; after the last
\* one the file is closed.
SWrite(p) ==
    /\ procs[p].pc = "write"
    /\ LET text == JsonDump(ObjDoc(procs[p].registry))
           pos == procs[p].off + 1
       IN  /\ tmpFile' = IF procs[p].fd = "tmp"
                         THEN FileOf(WriteAt(tmpFile.data, pos, text[pos]))
                         ELSE tmpFile
           /\ regFile' = IF procs[p].fd = "reg"
                         THEN FileOf(WriteAt(regFile.data, pos, text[pos]))
                         ELSE regFile
           /\ procs' = [procs EXCEPT
                           ![p].off = pos,
                           ![p].pc = IF pos = Len(text) THEN "replace" ELSE "write",
                           ![p].fd = IF pos = Len(text) THEN "none" ELSE @]
    /\ UNCHANGED <<feedback, backups, now, fs, op, ret, ld, sv, steps, seen, finished>>

\* os.replace(temp_path, REGISTRY_PATH): the file at the temporary path takes
\* the registry's name, and the descriptors follow their files. With no file
\* at the temporary path it raises, and save_registry returns False.
SReplace(p) ==
    /\ procs[p].pc = "replace"
    /\ IF tmpFile.exists
       THEN /\ regFile' = tmpFile
            /\ tmpFile' = NoFile
            /\ procs' = [q \in Pids |->
                  LET me == IF q = p
                            THEN [procs[q] EXCEPT !.pc = "done", !.ok = "True"]
                            ELSE procs[q]
                  IN  [me EXCEPT !.fd = CASE @ = "tmp" -> "reg"
                                          [] @ = "reg" -> "gone"
                                          [] OTHER -> @]]
       ELSE /\ UNCHANGED <<regFile, tmpFile>>
            /\ procs' = [procs EXCEPT ![p].pc = "done", ![p].ok = "False",
                                      ![p].failed = "replace"]
    /\ finished' = Append(finished, p)
    /\ UNCHANGED <<feedback, backups, now, fs, op, ret, ld, sv, steps, seen>>

\* An except clause that swallows the error and returns True.
SFailsSilent(p) ==
    /\ procs[p].pc \in {"open", "write", "replace"}
    /\ procs' = [procs EXCEPT ![p].pc = "done", ![p].ok = "True",
                              ![p].fd = "none", ![p].failed = procs[p].pc]
    /\ finished' = Append(finished, p)
    /\ UNCHANGED <<feedback, regFile, tmpFile, backups, now, fs, op, ret, ld, sv, steps, seen>>

\* An I/O error in open, in a write or in os.replace: the except clause
\* returns False.
SFails(p) ==
    /\ procs[p].pc \in {"open", "write", "replace"}
    /\ procs' = [procs EXCEPT ![p].pc = "done", ![p].ok = "False",
                              ![p].fd = "none", ![p].failed = procs[p].pc]
    /\ finished' = Append(finished, p)
    /\ UNCHANGED <<feedback, regFile, tmpFile, backups, now, fs, op, ret, ld, sv, steps, seen>>

\* The writers outside the venv manager (cleanup_manager.save_registry,
\* check_environment.check_registry_file, setup.initialize_registry) stamp or
\* build the registry and then "with open(REGISTRY_PATH, 'w')": the registry
\* file itself is emptied.
PlainOpen(p) ==
    /\ procs[p].pc = "plain_open"
    /\ regFile' = FileOf(<<>>)
    /\ procs' = [procs EXCEPT ![p].pc = "plain_write", ![p].fd = "reg", ![p].off = 0,
                              ![p].registry = Put(@, "last_updated", now)]
    /\ UNCHANGED <<feedback, tmpFile, backups, now, fs, op, ret, ld, sv, steps,
                   seen, finished>>

\* json.dump(registry, f, indent=2) writes the next chunk into the registry
\* file; after the last one the file is closed and the writer is done.
PlainWrite(p) ==
    /\ procs[p].pc = "plain_write"
    /\ LET text == JsonDump(ObjDoc(procs[p].registry))
           pos == procs[p].off + 1
       IN  /\ regFile' = FileOf(WriteAt(regFile.data, pos, text[pos]))
           /\ procs' = [procs EXCEPT
                           ![p].off = pos,
                           ![p].pc = IF pos = Len(text) THEN "done" ELSE "plain_write",
                           ![p].ok = IF pos = Len(text) THEN "True" ELSE @,
                           ![p].fd = IF pos = Len(text) THEN "none" ELSE @]
    /\ finished' = IF procs[p].off + 1 = Len(JsonDump(ObjDoc(procs[p].registry)))
                   THEN Append(finished, p) ELSE finished
    /\ UNCHANGED <<feedback, tmpFile, backups, now, fs, op, ret, ld, sv, steps, seen>>

\* open or a write raises, or the process is killed: the exception leaves the
\* function (cleanup_manager) or is caught and reported (check_environment,
\* setup); nothing puts the previous content back.
PlainFails(p) ==
    /\ procs[p].pc \in {"plain_open", "plain_write"}
    /\ procs' = [procs EXCEPT ![p].pc = "done", ![p].ok = "False",
                              ![p].fd = "none", ![p].failed = procs[p].pc]
    /\ finished' = Append(finished, p)
    /\ UNCHANGED <<feedback, regFile, tmpFile, backups, now, fs, op, ret, ld, sv, steps, seen>>

\* Another process opens the registry file and reads it, while process 1 is
\* at some step of its save.
Read ==
    /\ seen' = [file |-> regFile, at |-> procs[1].pc, off |-> procs[1].off]
    /\ seen' # seen
    /\ UNCHANGED <<feedback, regFile, tmpFile, backups, now, fs, op, ret, ld, sv, steps,
                   procs, finished>>

\* ------------------------------------------------------- specifications

InitDisk ==
    /\ regFile = NoFile
    /\ tmpFile = NoFile
    /\ backups = [t \in Times |-> NoFile]
    /\ now = 0

InitCalls ==
    /\ feedback = NoFeedback
    /\ op = NoCall
    /\ ret = "None"
    /\ ld = NoLoad
    /\ sv = "none"
    /\ steps = 0

NoProcs ==
    /\ procs = [p \in Pids |-> Idle]
    /\ seen = [file |-> NoFile, at |-> "idle", off |-> 0]
    /\ finished = <<>>

\* The operations, one process at a time, from no registry file at all and
\* two usable environments; the operation's own save may fail.
OpFaults == {IOok, IO(FALSE, "none", "replace", FALSE),
             IO(FALSE, "none", "write_part", FALSE)}
Ops == Scope(RawPaths, Names, AddArgs, OpFaults, EnvStates, MaxSteps)
ReadOps == Scope(RawPaths, Names, AddArgs, {IOok}, EnvStates, MaxSteps)

Init ==
    /\ InitDisk
    /\ InitCalls
    /\ NoProcs
    /\ fs = [p \in Paths |-> EnvValid]

Next ==
    \/ Add(Ops)
    \/ AddForced(Ops)
    \/ Remove(Ops)
    \/ List(ReadOps)
    \/ TouchLastUsed(Ops)
    \/ RefreshPackages(Ops)
    \/ Check(ReadOps)
    \/ Cleanup(Ops)
    \/ Repair(Ops)
    \/ Tick(Ops)
    \/ FsChange(Ops)

Spec == Init /\ [][Next]_vars

\* The store: load_registry (through list) under every I/O fault and
\* save_registry (through add --force of one path), with the registry file
\* damaged or deleted from outside.
StoreFaults == {IOok, IO(TRUE, "none", "none", FALSE), IO(FALSE, "none", "none", TRUE)}
               \cup {IO(FALSE, f, "none", FALSE) : f \in SaveFailures}
StorePaths == {"~/Agentic/projects/x/.venv"}
Store == Scope(StorePaths, {"x"}, {[python_version |-> None, description |-> None]},
               StoreFaults, {}, MaxStoreSteps)
StoreWrites == Scope(StorePaths, {"x"},
                     {[python_version |-> None, description |-> None]},
                     {IOok, IO(FALSE, "none", "replace", FALSE)}, {}, MaxStoreSteps)

NextStore ==
    \/ List(Store)
    \/ AddForced(StoreWrites)
    \/ Tick(Store)
    \/ Corrupt(Store)

SpecStore == Init /\ [][NextStore]_vars

\* One process saves while another reads. The save starts from no registry
\* file, from one that does not parse or from a registry; a temporary file
\* may be left over from a save that failed.
AnEntry(p, name, t) == NewEntry(p, EnvValid, name, None, None, t)
WithEntries(venvs, t) ==
    [NewRegistry(t, FALSE) EXCEPT !.virtual_environments = venvs]
SomeRegistries ==
    {NewRegistry(0, FALSE),
     WithEntries(<<AnEntry(PathX, "x", 0)>>, 0),
     WithEntries(<<AnEntry(PathX, "x", 0), AnEntry(PathY, "y", 0)>>, 0)}
SomeFiles ==
    {NoFile, FileOf(GarbageText)}
    \cup {FileOf(JsonDump(ObjDoc(r))) : r \in SomeRegistries}

InitSave ==
    /\ InitCalls
    /\ fs = [p \in Paths |-> EnvValid]
    /\ now \in Times
    /\ backups = [t \in Times |-> NoFile]
    /\ regFile \in SomeFiles
    /\ tmpFile \in {NoFile, FileOf(<<>>)}
    /\ \E r \in SomeRegistries :
          procs = [p \in Pids |-> IF p = 1 THEN Saving(r, regFile) ELSE Idle]
    /\ seen = [file |-> regFile, at |-> "backup", off |-> 0]
    /\ finished = <<>>

NextSave ==
    \/ SBackup(1)
    \/ SOpen(1)
    \/ SWrite(1)
    \/ SReplace(1)
    \/ SFails(1)
    \/ Read

SpecSave == InitSave /\ [][NextSave]_vars

\* One writer of the registry file, step by step: the venv manager's save or
\* one of the writers that open the registry file itself.
InitWriters ==
    /\ InitCalls
    /\ fs = [p \in Paths |-> EnvValid]
    /\ now \in Times
    /\ backups = [t \in Times |-> NoFile]
    /\ regFile \in SomeFiles
    /\ tmpFile = NoFile
    /\ \E r \in SomeRegistries, pc \in {"backup", "plain_open"} :
          procs = [p \in Pids |->
                     IF p = 1 THEN [Saving(r, regFile) EXCEPT !.pc = pc] ELSE Idle]
    /\ seen = [file |-> regFile, at |-> "backup", off |-> 0]
    /\ finished = <<>>

NextWriters ==
    \/ SBackup(1)
    \/ SOpen(1)
    \/ SWrite(1)
    \/ SReplace(1)
    \/ SFails(1)
    \/ PlainOpen(1)
    \/ PlainWrite(1)
    \/ PlainFails(1)

SpecWriters == InitWriters /\ [][NextWriters]_vars

\* The feedback system from an empty directory: items are submitted and
\* updated, and the clock advances.
InitFeedback ==
    /\ InitDisk
    /\ InitCalls
    /\ NoProcs
    /\ fs = [p \in Paths |-> EnvValid]

NextFeedback ==
    \/ Submit
    \/ Update
    \/ FeedbackTick

SpecFeedback == InitFeedback /\ [][NextFeedback]_vars

\* Two processes at the same time, each load -> change -> save: one adds
\* PathX, the other removes PathY, which the registry file holds.
InitRace ==
    /\ InitCalls
    /\ fs = [p \in Paths |-> EnvValid]
    /\ now \in Times
    /\ backups = [t \in Times |-> NoFile]
    /\ regFile = FileOf(JsonDump(ObjDoc(WithEntries(<<AnEntry(PathY, "y", 0)>>, 0))))
    /\ tmpFile = NoFile
    /\ procs = [p \in Pids |-> [Idle EXCEPT !.pc = "load"]]
    /\ seen = [file |-> regFile, at |-> "load", off |-> 0]
    /\ finished = <<>>

NextRace ==
    \/ \E p \in Pids : SLoad(p)
    \/ \E p \in Pids : SBackup(p)
    \/ \E p \in Pids : SOpen(p)
    \/ \E p \in Pids : SWrite(p)
    \/ \E p \in Pids : SReplace(p)

SpecRace == InitRace /\ [][NextRace]_vars

\* The operations, one process at a time, on a disk that does not fail. The
\* run starts from no registry file, or from the registry that add --force
\* of PathX, or of PathX and PathY under one project name, left at second 0.
Quiet == Scope(RawPaths, Names, AddArgs, {IOok}, EnvStates, MaxQuietSteps)

QuietDisks ==
    LET valid == [p \in Paths |-> EnvValid]
        d0 == Disk(NoFile, NoFile, [t \in Times |-> NoFile])
        d1 == AddForce(d0, valid, 0, PathX, "x", None, None, IOok).disk
        d2 == AddForce(d1, valid, 0, PathY, "x", None, None, IOok).disk
    IN  {d0, d1, d2}

InitQuiet ==
    /\ InitCalls
    /\ NoProcs
    /\ fs = [p \in Paths |-> EnvValid]
    /\ now = 0
    /\ \E d \in QuietDisks :
        /\ regFile = d.reg
        /\ tmpFile = d.tmp
        /\ backups = d.bk

NextQuiet ==
    \/ Add(Quiet)
    \/ AddForced(Quiet)
    \/ Remove(Quiet)
    \/ List(Quiet)
    \/ TouchLastUsed(Quiet)
    \/ RefreshPackages(Quiet)
    \/ Check(Quiet)
    \/ Cleanup(Quiet)
    \/ Repair(Quiet)
    \/ Tick(Quiet)
    \/ FsChange(Quiet)

SpecQuiet == InitQuiet /\ [][NextQuiet]_vars

\* save_registry(R) and then load_registry(), as one caller runs them. The
\* save finds no registry file, one that does not parse or a registry, and
\* maybe a backup from second 0; its write, its rename or its backup copy
\* may fail. Process 1 stands for the caller: what it passed to save, what
\* save found at REGISTRY_PATH and what save returned.
RoundSave ==
    /\ procs[1].pc = "backup"
    /\ \E fail \in SaveFailures, copyFails \in BOOLEAN :
        LET s == SaveRegistry(TheDisk, procs[1].registry, now, fail, copyFails)
        IN  /\ regFile' = s.disk.reg
            /\ tmpFile' = s.disk.tmp
            /\ backups' = s.disk.bk
            /\ procs' = [procs EXCEPT ![1].pc = "done",
                                      ![1].ok = IF s.ok THEN "True" ELSE "False",
                                      ![1].failed = fail]
    /\ UNCHANGED <<feedback, now, fs, op, ret, ld, sv, steps, seen, finished>>

RoundLoad ==
    /\ procs[1].pc = "done"
    /\ LET l == Load(TheDisk, now, IOok)
       IN  /\ regFile' = l.disk.reg
           /\ tmpFile' = l.disk.tmp
           /\ backups' = l.disk.bk
           /\ ld' = LdOf(l)
    /\ procs' = [procs EXCEPT ![1].pc = "loaded"]
    /\ UNCHANGED <<feedback, now, fs, op, ret, sv, steps, seen, finished>>

InitRound ==
    /\ InitCalls
    /\ fs = [p \in Paths |-> EnvValid]
    /\ now \in Times
    /\ regFile \in SomeFiles
    /\ tmpFile = NoFile
    /\ \E b \in {NoFile, FileOf(JsonDump(ObjDoc(NewRegistry(0, FALSE))))} :
          backups = [t \in Times |-> IF t = 0 THEN b ELSE NoFile]
    /\ \E r \in SomeRegistries \cup {NewRegistry(0, TRUE)} :
          procs = [p \in Pids |-> IF p = 1 THEN Saving(r, regFile) ELSE Idle]
    /\ seen = [file |-> NoFile, at |-> "idle", off |-> 0]
    /\ finished = <<>>

NextRound ==
    \/ RoundSave
    \/ RoundLoad

SpecRound == InitRound /\ [][NextRound]_vars

\* Saves in a row, over many seconds. The run starts after n saves of one
\* registry, one in each of the seconds 0..n-1, and goes on with saves (whose
\* rename or backup copy may fail) and ticks of the clock. ret is what
\* backup_registry returned to the save.
RECURSIVE SavedDisk(_)
SavedDisk(n) ==
    IF n = 0
    THEN Disk(NoFile, NoFile, [t \in 0..MaxClock |-> NoFile])
    ELSE SaveRegistry(SavedDisk(n - 1), NewRegistry(0, FALSE), n - 1, "none", FALSE).disk

SaveAgain ==
    /\ steps < MaxBackupSteps
    /\ \E fail \in {"none", "replace"}, copyFails \in BOOLEAN :
        LET s == SaveRegistry(TheDisk, procs[1].registry, now, fail, copyFails)
        IN  /\ regFile' = s.disk.reg
            /\ tmpFile' = s.disk.tmp
            /\ backups' = s.disk.bk
            /\ procs' = [procs EXCEPT ![1].pc = "done", ![1].old = regFile,
                                      ![1].ok = IF s.ok THEN "True" ELSE "False",
                                      ![1].failed = fail]
            /\ ret' = IF ~regFile.exists THEN "none"
                      ELSE IF BackupRegistry(TheDisk, now, copyFails).ok THEN "True"
                      ELSE "False"
    /\ steps' = steps + 1
    /\ UNCHANGED <<feedback, now, fs, op, ld, sv, seen, finished>>

Clock ==
    /\ steps < MaxBackupSteps
    /\ now < MaxClock
    /\ now' = now + 1
    /\ steps' = steps + 1
    /\ UNCHANGED <<feedback, regFile, tmpFile, backups, fs, op, ret, ld, sv, procs,
                   seen, finished>>

InitBackups ==
    /\ InitCalls
    /\ fs = [p \in Paths |-> EnvValid]
    /\ now \in 0..MaxClock
    /\ regFile = SavedDisk(now).reg
    /\ tmpFile = SavedDisk(now).tmp
    /\ backups = SavedDisk(now).bk
    /\ procs = [p \in Pids |->
                  IF p = 1 THEN Saving(NewRegistry(0, FALSE), regFile) ELSE Idle]
    /\ seen = [file |-> NoFile, at |-> "idle", off |-> 0]
    /\ finished = <<>>

NextBackups ==
    \/ SaveAgain
    \/ Clock

SpecBackups == InitBackups /\ [][NextBackups]_vars

\* ----------------------------------------------------------- properties

\* The records of the registry the registry file holds.
VenvsOf(f) == RegistryOf(f).virtual_environments

\* The backups that parse as a registry.
ValidBackups(bk) == {t \in BackupNames(bk) : IsRegistryFile(bk[t])}

\* The registry file exists and does not parse as JSON.
InvalidJson(f) == f.exists /\ ~JsonLoad(f.data).ok

\* A file is a registry that names this path.
RegisteredIn(f, p) ==
    /\ IsRegistryFile(f)
    /\ HasVenvs(ObjDoc(RegistryOf(f)))
    /\ \E i \in 1..Len(VenvsOf(f)) : VenvsOf(f)[i].path = p

\* The record the registry file holds for a path (for a Registered path).
RecordOf(f, p) ==
    LET venvs == VenvsOf(f)
    IN  venvs[CHOOSE i \in 1..Len(venvs) : venvs[i].path = p]

\* The record of the call's path after an upsert of the record before it:
\* created_at kept, the fields supplied overwritten, last_updated refreshed.
IsUpsertOf(new, old, call, t) ==
    /\ new.created_at = old.created_at
    /\ new.project_name = call.project_name
    /\ Truthy(call.args.python_version) => new.python_version = call.args.python_version
    /\ Truthy(call.args.description) => new.description = call.args.description
    /\ new.last_updated = t

\* The add goes through to the registration: the directory exists, the
\* verification passes, is off or is overridden, and the operator (whom
\* --force does not ask) agrees to the update.
GoesThrough(call, fsys) ==
    /\ fsys[call.path].dir
    /\ ~call.args.verify \/ VerifyVenv(fsys[call.path]) \/ call.args.anyway
    /\ call.args.update

\* A record matches a remove: its path is the canonical path given, or its
\* project_name is the name given.
Matches(v, call) ==
    \/ Truthy(call.path) /\ v.path = call.path
    \/ Truthy(call.project_name) /\ v.project_name = call.project_name

\* Two registries are equal but for last_updated, which save stamps.
SameButStamp(r1, r2) == Drop(r1, "last_updated") = Drop(r2, "last_updated")

\* C1: after any sequence of add, add --force, remove, update_last_used,
\* update_packages, cleanup and repair from an empty registry, one process at
\* a time, the registry file holds at most one record per canonical path
\* (and only canonical paths).
C1_OneRecordPerPath ==
    (IsRegistryFile(regFile) /\ HasVenvs(ObjDoc(RegistryOf(regFile)))) =>
        LET venvs == VenvsOf(regFile)
        IN  \A i, j \in 1..Len(venvs) :
                /\ venvs[i].path \in Paths
                /\ venvs[i].path = venvs[j].path => i = j

\* An add of a path that was registered at an earlier time went through and
\* was saved: its record, the only one, is older than its last update.
C1_Witness ==
    /\ op.name \in {"add", "add_force"}
    /\ ret = "True"
    /\ sv = "ok"
    /\ IsRegistryFile(regFile)
    /\ \E i \in 1..Len(VenvsOf(regFile)) :
        /\ VenvsOf(regFile)[i].path = op.path
        /\ VenvsOf(regFile)[i].created_at < now
        /\ VenvsOf(regFile)[i].last_updated = now

\* The registry process 1 saves, as save_registry stamps it.
NewFile == FileOf(JsonDump(ObjDoc(Put(procs[1].registry, "last_updated", now))))

\* C2: while one writer runs save (backup, stamp, write the temporary file,
\* rename), whatever a reader reads from the registry file at any point is
\* the complete previous content or the complete new content.
C2_ReaderSeesOldOrNew ==
    /\ seen.file \in {procs[1].old, NewFile}
    /\ regFile \in {procs[1].old, NewFile}

\* The reader read the registry file while the temporary file was partly
\* written, and the save went on to rename it.
C2_Witness ==
    /\ seen.at = "write"
    /\ seen.off >= 1
    /\ procs[1].pc = "done"
    /\ procs[1].ok = "True"
    /\ regFile = NewFile
    /\ procs[1].old.exists
    /\ procs[1].old # NewFile

\* C3: when the write of the temporary file or the rename fails during save,
\* the registry file is what it was before the call and save returns False.
C3_FailedSaveLeavesFile ==
    \A p \in Pids :
        (procs[p].pc = "done" /\ procs[p].failed \in {"open", "write", "replace"}) =>
            /\ regFile = procs[p].old
            /\ procs[p].ok = "False"

\* A write failed after part of the text had reached the temporary file, and
\* there was a registry file to protect.
C3_Witness ==
    /\ procs[1].pc = "done"
    /\ procs[1].failed = "write"
    /\ procs[1].off >= 1
    /\ tmpFile.exists
    /\ tmpFile.data # <<>>
    /\ IsRegistryFile(regFile)

\* C4: an operation (add, remove, update_last_used, update_packages,
\* cleanup) whose save failed reports failure: it does not return True.
C4_FailedSaveReported ==
    (op.name \in {"add", "add_force", "remove", "update_last_used",
                  "update_packages", "cleanup"}
     /\ sv = "failed") => ret = "False"

\* C5: a load (with no I/O fault) of a registry file that is invalid JSON,
\* with at least one valid backup in the backup directory, returns the
\* content of a valid backup and leaves it in the registry file.
C5_RestoresValidBackup ==
    [][(/\ op'.name = "list"
        /\ InvalidJson(regFile)
        /\ ValidBackups(backups) # {}
        /\ ~ld'.raised
        /\ ld'.saved)
       => (/\ ld'.doc.type = "object"
           /\ \E t \in ValidBackups(backups) :
                 SameButStamp(ld'.doc.val, RegistryOf(backups[t]))
           /\ IsRegistryFile(regFile')
           /\ RegistryOf(regFile') = ld'.doc.val)]_vars

C7_LoadNeverRaises ==
    (op.name = "list") => (~ld.raised /\ ld.doc.type = "object")

\* C8: when both processes have finished load -> change -> save, the registry
\* file is the complete content written by the one whose save returned last.
C8_LastWriterWins ==
    (Len(finished) = 2) =>
        regFile = FileOf(JsonDump(ObjDoc(procs[finished[2]].registry)))

C10_MissingKeysFilled ==
    [][(/\ op'.name = "list"
        /\ IsRegistryFile(regFile)
        /\ ~(TopKeys \subseteq DOMAIN RegistryOf(regFile))
        /\ ~ld'.raised)
       => (/\ ld'.doc.type = "object"
           /\ TopKeys \subseteq DOMAIN ld'.doc.val
           /\ \A k \in DOMAIN RegistryOf(regFile) :
                 ld'.doc.val[k] = RegistryOf(regFile)[k])]_vars

C12_NewestBackupIsPrevious ==
    (procs[1].pc = "done" /\ procs[1].ok = "True" /\ procs[1].old.exists) =>
        /\ BackupNames(backups) # {}
        /\ backups[MaxOf(BackupNames(backups))] = procs[1].old

\* C13: after any number of saves the backup directory holds at most 10
\* backups, every backup a save removes is older than every backup it
\* keeps, and the backup a save has just made is among those kept.
C13_AtMostTenNewest ==
    [][/\ Cardinality(BackupNames(backups')) <= KeepBackups
       /\ \A t \in BackupNames(backups) \ BackupNames(backups') :
             \A u \in BackupNames(backups') : t < u
       /\ (now' = now /\ ret' = "True") => now \in BackupNames(backups')]_vars

\* A save made the eleventh backup and the oldest one was removed: ten are
\* left, the one of this second among them, and an earlier second has none.
C13_Witness ==
    /\ procs[1].pc = "done"
    /\ procs[1].ok = "True"
    /\ Cardinality(BackupNames(backups)) = KeepBackups
    /\ now \in BackupNames(backups)
    /\ \E t \in 1..now : t \notin BackupNames(backups)
                         /\ \A u \in BackupNames(backups) : t < u

\* C14 (as stated): an add on a path that is already registered upserts:
\* the record keeps its created_at, every field supplied overwrites the
\* stored one, last_updated is refreshed and the number of records stays.
C14_AddUpserts ==
    [][(op'.name \in {"add", "add_force"} /\ Registered(op'.path))
       => (/\ RegisteredIn(regFile', op'.path)
           /\ IsUpsertOf(RecordOf(regFile', op'.path), RecordOf(regFile, op'.path),
                         op', now)
           /\ Len(VenvsOf(regFile')) = Len(VenvsOf(regFile)))]_vars

\* C14 (amended): the same for an add that goes through: the directory
\* exists, the verification passes, is off or is overridden, and the
\* operator confirms the update (add --force asks nothing).
C14_AddUpsertsWhenConfirmed ==
    [][(/\ op'.name \in {"add", "add_force"}
        /\ Registered(op'.path)
        /\ GoesThrough(op', fs))
       => (/\ RegisteredIn(regFile', op'.path)
           /\ IsUpsertOf(RecordOf(regFile', op'.path), RecordOf(regFile, op'.path),
                         op', now)
           /\ Len(VenvsOf(regFile')) = Len(VenvsOf(regFile)))]_vars

\* An interactive add with both optional fields, confirmed by the operator,
\* updated a record that was created at an earlier second.
C14_Witness ==
    /\ op.name = "add"
    /\ op.args.update
    /\ op.args.python_version = "3.9"
    /\ ret = "True"
    /\ Registered(op.path)
    /\ RecordOf(regFile, op.path).created_at < now
    /\ RecordOf(regFile, op.path).python_version = "3.9"
    /\ RecordOf(regFile, op.path).description = "given"
    /\ RecordOf(regFile, op.path).last_updated = now

\* C15: created_at is immutable: a record that is in the registry file
\* before and after an operation (add, add --force, update_last_used,
\* update_packages, cleanup, repair, or any other) has the same created_at.
C15_CreatedAtImmutable ==
    [][\A p \in Paths :
          (RegisteredIn(regFile, p) /\ RegisteredIn(regFile', p)) =>
              RecordOf(regFile', p).created_at = RecordOf(regFile, p).created_at]_vars

\* update_packages rewrote, at a later second, a record that keeps the
\* created_at of the second it was added in.
C15_Witness ==
    /\ op.name = "update_packages"
    /\ ret = "True"
    /\ sv = "ok"
    /\ \E p \in Paths :
        /\ RegisteredIn(regFile, p)
        /\ RecordOf(regFile, p).created_at < now
        /\ RecordOf(regFile, p).last_updated = now

\* C16: an add with verification fails and inserts no record when the path
\* is Missing (no directory), and when it is Invalid (a directory that fails
\* the verification) and the operator does not override; a registry file
\* that parses and the backup directory are left unchanged.
C16_AddRefused ==
    [][(/\ op'.name = "add"
        /\ op'.args.verify
        /\ \/ ~fs[op'.path].dir
           \/ ~VerifyVenv(fs[op'.path]) /\ ~op'.args.anyway)
       => (/\ ret' = "False"
           /\ RegisteredIn(regFile', op'.path) => RegisteredIn(regFile, op'.path)
           /\ IsRegistryFile(regFile) => (regFile' = regFile /\ backups' = backups))]_vars

\* The operator declined to add an Invalid directory, with a registry of
\* other records and a backup on the disk.
C16_Witness ==
    /\ op.name = "add"
    /\ op.args.verify
    /\ ~op.args.anyway
    /\ fs[op.path].dir
    /\ ~VerifyVenv(fs[op.path])
    /\ ret = "False"
    /\ IsRegistryFile(regFile)
    /\ Len(VenvsOf(regFile)) = 1
    /\ ~RegisteredIn(regFile, op.path)
    /\ BackupNames(backups) # {}

\* C17: remove deletes exactly the records that match (the path given, made
\* canonical, or the project_name given); every other record stays, in its
\* place and with its fields.
C17_RemoveExact ==
    [][(op'.name = "remove" /\ IsRegistryFile(regFile)
        /\ HasVenvs(ObjDoc(RegistryOf(regFile))))
       => (/\ IsRegistryFile(regFile')
           /\ VenvsOf(regFile') =
                 SelectSeq(VenvsOf(regFile), LAMBDA v : ~Matches(v, op')))]_vars

\* A remove by path took one of two records and left the other.
C17_Witness ==
    /\ op.name = "remove"
    /\ op.path = PathX
    /\ ret = "True"
    /\ IsRegistryFile(regFile)
    /\ Len(VenvsOf(regFile)) = 1
    /\ RegisteredIn(regFile, PathY)

\* C18: cleanup removes every record whose path is no directory and no
\* other: a record whose directory exists stays, as it was and in its place,
\* whether or not the environment in it passes the verification.
C18_CleanupRemovesMissing ==
    [][(op'.name = "cleanup" /\ IsRegistryFile(regFile)
        /\ HasVenvs(ObjDoc(RegistryOf(regFile))))
       => (/\ IsRegistryFile(regFile')
           /\ VenvsOf(regFile') =
                 SelectSeq(VenvsOf(regFile), LAMBDA v : fs'[v.path].dir))]_vars

\* A cleanup removed the record of a directory that is gone and kept the
\* record of a directory that holds no working environment.
C18_Witness ==
    /\ op.name = "cleanup"
    /\ ret = "True"
    /\ ~fs[PathX].dir
    /\ fs[PathY].dir /\ ~VerifyVenv(fs[PathY])
    /\ IsRegistryFile(regFile)
    /\ RegisteredIn(regFile, PathY)
    /\ ~RegisteredIn(regFile, PathX)
    /\ \E t \in BackupNames(backups) :
          IsRegistryFile(backups[t]) /\ RegisteredIn(backups[t], PathX)

\* C19: cleanup is idempotent: a cleanup that runs right after a cleanup,
\* with no change of the directories and no other operation in between,
\* removes no record (it returns False) and leaves the records as they were.
C19_CleanupIdempotent ==
    [][(op'.name = "cleanup" /\ op'.after.name = "cleanup"
        /\ op'.after.ret # "raised")
       => (/\ ret' = "False"
           /\ IsRegistryFile(regFile) /\ IsRegistryFile(regFile')
           /\ VenvsOf(regFile') = VenvsOf(regFile))]_vars

\* A cleanup that removed the record of a directory that is gone was followed
\* by a second cleanup.
C19_Witness ==
    /\ op.name = "cleanup"
    /\ op.after = [name |-> "cleanup", ret |-> "True"]
    /\ ret = "False"
    /\ ~fs[PathX].dir
    /\ IsRegistryFile(regFile)
    /\ ~RegisteredIn(regFile, PathX)

C21_RepairAddsOnlyAccepted ==
    [][(op'.name = "repair" /\ IsRegistryFile(regFile)
        /\ HasVenvs(ObjDoc(RegistryOf(regFile))))
       => (/\ IsRegistryFile(regFile')
           /\ LET old == VenvsOf(regFile)
                  new == VenvsOf(regFile')
              IN  /\ Len(new) >= Len(old)
                  /\ SubSeq(new, 1, Len(old)) = old
                  /\ \A i \in (Len(old) + 1)..Len(new) :
                        /\ \E k \in 1..Len(ScanOrder) : ScanOrder[k] = new[i].path
                        /\ new[i].path \in op'.accept
                        /\ ~RegisteredIn(regFile, new[i].path)
                        /\ fs[new[i].path].dir
                        /\ VerifyVenv(fs[new[i].path]))]_vars

\* A repair added the record of an environment the operator accepted.
C21_Witness ==
    /\ op.name = "repair"
    /\ op.found = <<PathX>>
    /\ PathX \in op.accept
    /\ sv = "ok"
    /\ IsRegistryFile(regFile)
    /\ RegisteredIn(regFile, PathX)
    /\ RecordOf(regFile, PathX).description = AutoDescription("x")

\* C22: update_packages on a record whose environment is not Valid (the
\* directory is missing, a binary is absent or the interpreter does not run)
\* returns False and leaves the stored records, their packages among them,
\* as they were.
C22_UpdatePackagesNeedsValid ==
    [][(/\ op'.name = "update_packages"
        /\ IsRegistryFile(regFile)
        /\ HasVenvs(ObjDoc(RegistryOf(regFile)))
        /\ \E i \in 1..Len(VenvsOf(regFile)) :
              /\ Matches(VenvsOf(regFile)[i], op')
              /\ ~(fs[VenvsOf(regFile)[i].path].dir
                   /\ VerifyVenv(fs[VenvsOf(regFile)[i].path])))
       => (/\ ret' = "False"
           /\ IsRegistryFile(regFile')
           /\ VenvsOf(regFile') = VenvsOf(regFile))]_vars

\* What a check of this call has to find on this registry file and these
\* directories: the first matching record decides.
CheckStatus(f, fsys, call) ==
    LET venvs == VenvsOf(f)
        hits == {i \in 1..Len(venvs) : Matches(venvs[i], call)}
    IN  IF hits = {} THEN "NotRegistered"
        ELSE LET e == fsys[venvs[MinOf(hits)].path]
             IN  IF ~e.dir THEN "Missing"
                 ELSE IF VerifyVenv(e) THEN "Valid"
                 ELSE "Invalid"

\* C23: check tells NotRegistered, Missing, Invalid and Valid apart: it
\* returns True exactly for a Valid target, and two checks in a row whose
\* targets are in different states return different results.
C23_CheckOutcomesDistinct ==
    [][(op'.name = "check" /\ IsRegistryFile(regFile)
        /\ HasVenvs(ObjDoc(RegistryOf(regFile))))
       => (/\ (ret' = "True") <=> (CheckStatus(regFile, fs, op') = "Valid")
           /\ (op.name = "check"
               /\ CheckStatus(regFile, fs, op) # CheckStatus(regFile, fs, op'))
              => ret' # ret)]_vars

\* C24: the verbs add, remove, check and cleanup end with exit status 0 when
\* the operation succeeded and with 1 when it failed or found no target (a
\* cleanup succeeds whether or not it removed a record).
C24_ExitCodes ==
    op.name \in {"add", "add_force", "remove", "check", "cleanup"} =>
        LET succeeded == IF op.name = "cleanup" THEN ret \in {"True", "False"}
                         ELSE ret = "True"
        IN  SysExit(ret) = IF succeeded THEN 0 ELSE 1

\* C25: whichever writer of the repository writes the registry file, a
\* failure or crash at any step leaves the registry file with the complete
\* previous content or the complete new content.
C25_NeverHalfWritten ==
    \A p \in Pids :
        (procs[p].pc = "done" /\ procs[p].failed # "none") =>
            regFile \in {procs[p].old, NewFile}

\* C26: update_feedback leaves the item's id and created_at as they were,
\* stores the value of every other key supplied (updated_at, which the call
\* stamps itself, is not among the keys supplied here), and for an id
\* without an item returns False and writes no file.
C26_UpdateFeedbackFrame ==
    [][op'.name = "update_feedback" =>
        LET old == GetFeedback(feedback.files, feedback'.id)
            new == GetFeedback(feedback'.files, feedback'.id)
            updates == feedback'.updates
        IN  /\ new.id = old.id
            /\ new.created_at = old.created_at
            /\ (old # NoItem /\ ret' = "True") =>
                  \A k \in DOMAIN updates \ {"id", "created_at"} : new[k] = updates[k]
            /\ old = NoItem => (ret' = "False" /\ feedback'.files = feedback.files)]_vars

\* C27: after a save that failed while it wrote or renamed the temporary
\* file, no temporary file is left next to the registry file.
C27_TempFileDiscarded ==
    \A p \in Pids :
        (procs[p].pc = "done" /\ procs[p].failed \in {"write", "replace"}) =>
            ~tmpFile.exists

\* C28: every file in the backup directory parses as a registry, whatever
\* saves, corruptions of the registry file and recoveries by load there were.
C28_BackupsParse ==
    \A t \in BackupNames(backups) : IsRegistryFile(backups[t])

\* C29: with two processes saving at the same time through the one temporary
\* path, the registry file is, once a save has renamed its file, at every
\* moment the complete text of one process's registry.
C29_RegistryFileComplete ==
    (finished # <<>>) =>
        \E p \in Pids : regFile = FileOf(JsonDump(ObjDoc(procs[p].registry)))

\* C30: list, check, and a remove, update_packages or update_last_used that
\* returns False (no matching record, a missing directory, an empty package
\* probe) leave a registry file that exists and parses, and the backup
\* directory, as they were.
C30_NoSaveNoChange ==
    [][(/\ IsRegistryFile(regFile)
        /\ \/ op'.name \in {"list", "check"}
           \/ /\ op'.name \in {"remove", "update_packages", "update_last_used"}
              /\ ret' = "False")
       => (regFile' = regFile /\ backups' = backups)]_vars

\* update_packages of a registered path whose directory is gone returned
\* False with a parseable registry file and a backup on disk.
C30_Witness ==
    /\ op.name = "update_packages"
    /\ ret = "False"
    /\ ld.via = "parsed"
    /\ Truthy(op.path)
    /\ Registered(op.path)
    /\ ~fs[op.path].dir
    /\ IsRegistryFile(regFile)
    /\ BackupNames(backups) # {}

====
